---------------------------- MODULE Spec2Model ----------------------------
(***************************************************************************)
(* A model of ssv.py: the bounding-box splitter, the catalog fetcher, the  *)
(* per-id detail cache/fetcher, the map renderer and the driver that runs  *)
(* them in sequence against a filesystem that persists between runs.       *)
(***************************************************************************)
EXTENDS Integers, Sequences, FiniteSets, TLC

(***************************************************************************)
(* Bounds of the model.                                                    *)
(***************************************************************************)
\* Python floats are binary64 (53 significand bits); the model keeps the
\* same round-to-nearest-even arithmetic at a reduced significand width.
MantBits == 5
\* Box coordinates handed to split_bounding_box range over 0..MaxCoord.
MaxCoord == 4
\* Grid sizes handed to split_bounding_box range over -1..MaxGrid.
MaxGrid == 3
\* Number of pipeline runs (executions of the __main__ block) explored.
MaxRuns == 2

(***************************************************************************)
(* Python values.  None and an optional value are sequences of length      *)
(* zero and one, so that None compares with every value.                   *)
(***************************************************************************)
None == <<>>
Some(x) == <<x>>

\* How a call ends: it returns a value or raises an exception.
Return(v) == [kind |-> "return", exc |-> "", value |-> v]
Raise(e) == [kind |-> "raise", exc |-> e, value |-> <<>>]

(***************************************************************************)
(* Floating point.  A float is held as an integer number of grid units of  *)
(* 2^-FracBits; every float of the modelled width between 1/8 and the      *)
(* largest coordinate lies on that grid.                                   *)
(***************************************************************************)
RECURSIVE Pow2(_)
Pow2(n) == IF n <= 0 THEN 1 ELSE 2 * Pow2(n - 1)

FracBits == MantBits + 2
Scale == Pow2(FracBits)

Abs(x) == IF x < 0 THEN -x ELSE x

\* The largest e >= 0 with 2^e * b <= a (0 when a < b), for a >= 0, b > 0.
RECURSIVE Log2Floor(_, _)
Log2Floor(a, b) == IF 2 * b <= a THEN 1 + Log2Floor(a, 2 * b) ELSE 0

\* The unit in the last place of a float of magnitude a/b grid units.
Ulp(a, b) ==
    LET e == Log2Floor(a, b)
    IN  IF e >= MantBits - 1 THEN Pow2(e - MantBits + 1) ELSE 1

\* The float nearest to the rational a/b grid units (b > 0), ties to even:
\* the rounding every Python float operation applies to its exact result.
Round(a, b) ==
    IF a = 0 THEN 0
    ELSE LET s == IF a < 0 THEN -1 ELSE 1
             n == Abs(a)
             u == Ulp(n, b)
             m == n \div (b * u)
             r == n - m * b * u
             up == 2 * r > b * u \/ (2 * r = b * u /\ m % 2 = 1)
         IN  s * (IF up THEN m + 1 ELSE m) * u

FromInt(n) == Round(n * Scale, 1)
FAdd(x, y) == Round(x + y, 1)
\* int * float
FMulInt(i, x) == Round(i * x, 1)
\* int / int (true division)
FDivInt(a, b) == Round(a * Scale, b)

(***************************************************************************)
(* split_bounding_box                                                      *)
(***************************************************************************)
\* A mutant: the inner loop offsets the second axis by the outer index.
split_bounding_box_outer_index(bbox, grid_size) ==
    IF grid_size = 0 THEN Raise("ZeroDivisionError")
    ELSE LET x_step == FDivInt(bbox[3] - bbox[1], grid_size)
             y_step == FDivInt(bbox[4] - bbox[2], grid_size)
             n == IF grid_size > 0 THEN grid_size ELSE 0
             box(i, j) ==
                 LET sub_min_x == FAdd(FromInt(bbox[1]), FMulInt(i, x_step))
                     sub_min_y == FAdd(FromInt(bbox[2]), FMulInt(i, y_step))
                 IN  <<sub_min_x, sub_min_y,
                       FAdd(sub_min_x, x_step), FAdd(sub_min_y, y_step)>>
         IN  Return([k \in 1..(n * n) |-> box((k - 1) \div n, (k - 1) % n)])

\* bbox is <<min_x, min_y, max_x, max_y>> in integers; the result is either
\* the exception raised or the list of tiles, each a 4-tuple of floats.
split_bounding_box(bbox, grid_size) ==
    IF grid_size = 0 THEN Raise("ZeroDivisionError")
    ELSE LET x_step == FDivInt(bbox[3] - bbox[1], grid_size)
             y_step == FDivInt(bbox[4] - bbox[2], grid_size)
             \* range(grid_size) is empty for a negative grid_size
             n == IF grid_size > 0 THEN grid_size ELSE 0
             box(i, j) ==
                 LET sub_min_x == FAdd(FromInt(bbox[1]), FMulInt(i, x_step))
                     sub_min_y == FAdd(FromInt(bbox[2]), FMulInt(j, y_step))
                 IN  <<sub_min_x, sub_min_y,
                       FAdd(sub_min_x, x_step), FAdd(sub_min_y, y_step)>>
         IN  Return([k \in 1..(n * n) |-> box((k - 1) \div n, (k - 1) % n)])


(***************************************************************************)
(* The remote services and their JSON bodies.                              *)
(***************************************************************************)
\* Object ids the catalog may hand out are 1..MaxId.
MaxId == 2
Ids == 1..MaxId

\* The property code of the traffic volume (AADT).
TrafficVolumeCode == 4623

\* What subprocess.run followed by json.loads can give.
CalledProcessError == [kind |-> "CalledProcessError", body |-> <<>>]
JSONDecodeError == [kind |-> "JSONDecodeError", body |-> <<>>]
Json(b) == [kind |-> "json", body |-> b]
Failures == {"CalledProcessError", "JSONDecodeError"}

\* The id lists a tile can answer with: every ascending list over Ids.
IdLists ==
    {s \in UNION {[1..k -> Ids] : k \in 0..MaxId} :
        \A a, b \in DOMAIN s : a < b => s[a] < s[b]}

\* Catalog bodies: a record list under "objekter" (each record with its
\* "id"), a body without "objekter", and a record list holding a record
\* without "id".
CatalogBodies ==
    {[objekter |-> [k \in DOMAIN s |-> [id |-> s[k]]]] : s \in IdLists}
        \cup {[metadata |-> 0]}
        \cup {[objekter |-> <<[id |-> 1], [href |-> 0]>>]}

CatalogOutcomes ==
    {CalledProcessError, JSONDecodeError} \cup {Json(b) : b \in CatalogBodies}

\* Detail bodies.  The geometries are WKT strings named by their type; the
\* last four lack "geometri", "wkt", a property's "id", a property's "verdi".
Detail(w, e) == [geometri |-> [wkt |-> w], egenskaper |-> e]
Adt(v) == [id |-> TrafficVolumeCode, verdi |-> v]

DetailBodies ==
    { Detail(Some("LINESTRING(A)"), <<[id |-> 1, verdi |-> Some(7)], Adt(Some(50))>>),
      Detail(Some("MULTILINESTRING(B)"), <<Adt(Some(80))>>),
      Detail(Some("LINESTRING(C)"), <<[id |-> 1, verdi |-> Some(7)]>>),
      Detail(Some("LINESTRING(D)"), <<Adt(Some(0))>>),
      Detail(Some(""), <<Adt(Some(50))>>),
      Detail(None, <<Adt(Some(50))>>),
      Detail(Some("LINESTRING(A)"), <<Adt(None)>>),
      [egenskaper |-> <<Adt(Some(50))>>],
      [geometri |-> [srid |-> 5973], egenskaper |-> <<Adt(Some(50))>>],
      Detail(Some("LINESTRING(A)"), <<[verdi |-> Some(50)]>>),
      Detail(Some("LINESTRING(A)"), <<[id |-> TrafficVolumeCode]>>) }

DetailOutcomes ==
    {CalledProcessError, JSONDecodeError} \cup {Json(b) : b \in DetailBodies}

(***************************************************************************)
(* The filesystem.                                                         *)
(***************************************************************************)
DataDir == "data"
SvvDir == "data/svv"
ObjectIdsDir == "data/svv/object_ids"
OutputDir == "output"
AllDirs == {DataDir, SvvDir, ObjectIdsDir, OutputDir}

\* The directory trees a first run may find: a fresh checkout, with none of
\* the directories, and a prepared one, with all of them.
DirTrees == {{}, AllDirs}

\* A function extended or overwritten at one key: writing file k.
Write(f, k, v) == [x \in DOMAIN f \cup {k} |-> IF x = k THEN v ELSE f[x]]

Range(s) == {s[k] : k \in DOMAIN s}

(***************************************************************************)
(* fetch_nvdb_kartutsnitt                                                  *)
(***************************************************************************)
\* [obj["id"] for obj in objs]: the ids, or KeyError at the first record
\* that has no "id".
ObjectIdsOf(objs) ==
    IF \E k \in DOMAIN objs : "id" \notin DOMAIN objs[k]
    THEN Raise("KeyError")
    ELSE Return([k \in DOMAIN objs |-> objs[k].id])

\* net is what the one request of the call gives.  The two caught
\* exceptions fall through to "return []".
fetch_nvdb_kartutsnitt(net) ==
    IF net.kind \in Failures THEN Return(<<>>)
    ELSE IF "objekter" \in DOMAIN net.body
         THEN ObjectIdsOf(net.body.objekter)
         ELSE Return(<<>>)

(***************************************************************************)
(* fetch_object_details                                                    *)
(***************************************************************************)
\* The loop over response_json.get("egenskaper", []): the value of the last
\* property whose id is the traffic-volume code, starting from acc; KeyError
\* at a property without "id", or without "verdi" under that code.
RECURSIVE ScanEgenskaper(_, _, _)
ScanEgenskaper(egenskaper, k, acc) ==
    IF k > Len(egenskaper) THEN Return(acc)
    ELSE LET egenskap == egenskaper[k]
         IN  IF "id" \notin DOMAIN egenskap THEN Raise("KeyError")
             ELSE IF egenskap.id = TrafficVolumeCode
                  THEN IF "verdi" \notin DOMAIN egenskap THEN Raise("KeyError")
                       ELSE ScanEgenskaper(egenskaper, k + 1, egenskap.verdi)
                  ELSE ScanEgenskaper(egenskaper, k + 1, acc)

\* Lines 108-120: the pair (geometry, adt) read from a parsed response.
ExtractDetail(response_json) ==
    IF "geometri" \notin DOMAIN response_json THEN Raise("KeyError")
    ELSE IF "wkt" \notin DOMAIN response_json.geometri THEN Raise("KeyError")
    ELSE LET geometry == response_json.geometri.wkt
             egenskaper == IF "egenskaper" \in DOMAIN response_json
                           THEN response_json.egenskaper ELSE <<>>
             scan == ScanEgenskaper(egenskaper, 1, None)
         IN  IF scan.kind = "raise" THEN scan
             ELSE Return(<<geometry, scan.value>>)

\* A mutant: no cache lookup; every call queries the service and overwrites
\* the file.
fetch_object_details_always_fetch(object_id, cache, dirs, net) ==
    IF net.kind \in Failures
    THEN [ret |-> Return(<<None, None>>), cache |-> cache, requests |-> 1]
    ELSE IF ObjectIdsDir \notin dirs
    THEN [ret |-> Raise("FileNotFoundError"), cache |-> cache, requests |-> 1]
    ELSE [ret |-> ExtractDetail(net.body),
          cache |-> Write(cache, object_id, net.body), requests |-> 1]

\* A mutant: a cached record is revalidated against the service; the file is
\* kept but the fresh response is returned.
fetch_object_details_revalidate(object_id, cache, dirs, net) ==
    IF net.kind \in Failures
    THEN [ret |-> Return(<<None, None>>), cache |-> cache, requests |-> 1]
    ELSE IF object_id \in DOMAIN cache
    THEN [ret |-> ExtractDetail(net.body), cache |-> cache, requests |-> 1]
    ELSE IF ObjectIdsDir \notin dirs
    THEN [ret |-> Raise("FileNotFoundError"), cache |-> cache, requests |-> 1]
    ELSE [ret |-> ExtractDetail(net.body),
          cache |-> Write(cache, object_id, net.body), requests |-> 1]

\* A mutant: the response of a failed query is cached as an empty record
\* and the query is repeated once.
fetch_object_details_cache_failure(object_id, cache, dirs, net) ==
    IF object_id \in DOMAIN cache
    THEN [ret |-> ExtractDetail(cache[object_id]), cache |-> cache, requests |-> 0]
    ELSE IF net.kind \in Failures
    THEN [ret |-> Return(<<None, None>>),
          cache |-> IF ObjectIdsDir \in dirs
                    THEN Write(cache, object_id, [geometri |-> [wkt |-> None]])
                    ELSE cache,
          requests |-> 2]
    ELSE IF ObjectIdsDir \notin dirs
    THEN [ret |-> Raise("FileNotFoundError"), cache |-> cache, requests |-> 1]
    ELSE [ret |-> ExtractDetail(net.body),
          cache |-> Write(cache, object_id, net.body), requests |-> 1]

\* cache maps the ids that have a file data/svv/object_ids/<id>.json to the
\* JSON value in it (json.dump of a value json.loads gave reads back as that
\* value); net is what the request gives if one is made.  The result is how
\* the call ends, the cache files after it, and the requests it issued.
fetch_object_details(object_id, cache, dirs, net) ==
    IF object_id \in DOMAIN cache
    THEN [ret |-> ExtractDetail(cache[object_id]), cache |-> cache, requests |-> 0]
    ELSE IF net.kind \in Failures
    THEN [ret |-> Return(<<None, None>>), cache |-> cache, requests |-> 1]
    ELSE IF ObjectIdsDir \notin dirs
    \* open(filename, "w") in a directory that does not exist
    THEN [ret |-> Raise("FileNotFoundError"), cache |-> cache, requests |-> 1]
    ELSE [ret |-> ExtractDetail(net.body),
          cache |-> Write(cache, object_id, net.body), requests |-> 1]

(***************************************************************************)
(* generate_color, generate_map                                            *)
(***************************************************************************)
\* The default colour-scale maximum of generate_map when no value is given.
DefaultMaxAdt == 10000

\* int(norm * 255) and int((1 - norm) * 255) for norm = (v - lo) / (hi - lo).
\* The quotient and the products are taken exactly: for the attribute
\* values of DetailBodies and of AdtValues every intermediate (0, 1/2, 5/8,
\* 1 and their products with 255) is a binary64 number.
generate_color(adt_value, min_adt, max_adt) ==
    IF max_adt - min_adt = 0 THEN Raise("ZeroDivisionError")
    ELSE Return(<<((adt_value - min_adt) * 255) \div (max_adt - min_adt),
                  ((max_adt - adt_value) * 255) \div (max_adt - min_adt),
                  0>>)

\* shapely.wkt.loads(geometry).geom_type; "invalid" when loads raises.
GeomType(wkt) ==
    CASE wkt \in {"LINESTRING(A)", "LINESTRING(C)", "LINESTRING(D)"} -> "LineString"
      [] wkt = "MULTILINESTRING(B)" -> "MultiLineString"
      [] wkt = "" -> "invalid"
      [] OTHER -> "Point"

\* len(shape.geoms) of a MultiLineString; one polyline for a LineString.
NumLines(wkt) == IF GeomType(wkt) = "MultiLineString" THEN 2 ELSE 1

SetMin(S) == CHOOSE x \in S : \A y \in S : x <= y
SetMax(S) == CHOOSE x \in S : \A y \in S : x >= y

\* The loop over roads_data from index k on: the polylines appended to acc,
\* or the first exception raised.
RECURSIVE DrawRoads(_, _, _, _, _)
DrawRoads(roads_data, k, min_adt, max_adt, acc) ==
    IF k > Len(roads_data) THEN Return(acc)
    ELSE LET geometry == roads_data[k][1]
             adt_value == roads_data[k][2]
         IN  IF geometry # None /\ adt_value # None
             THEN LET type == GeomType(geometry[1])
                      color == generate_color(adt_value[1], min_adt, max_adt)
                      lines == [n \in 1..NumLines(geometry[1]) |->
                                   [geometry |-> geometry[1], part |-> n,
                                    color |-> color.value, popup |-> adt_value[1]]]
                  IN  IF type = "invalid" THEN Raise("WKTReadingError")
                      ELSE IF type \notin {"LineString", "MultiLineString"}
                      THEN DrawRoads(roads_data, k + 1, min_adt, max_adt, acc)
                      ELSE IF color.kind = "raise" THEN color
                      ELSE DrawRoads(roads_data, k + 1, min_adt, max_adt, acc \o lines)
             ELSE DrawRoads(roads_data, k + 1, min_adt, max_adt, acc)

\* html is the content of output/svv-map.html (<<>> when there is no such
\* file, else <<polylines>>).  The result is how the call ends and the file
\* after it.
generate_map(roads_data, dirs, html) ==
    LET adt_values == {roads_data[k][2][1] :
                          k \in {n \in DOMAIN roads_data : roads_data[n][2] # None}}
        min_adt == IF adt_values # {} THEN SetMin(adt_values) ELSE 0
        max_adt == IF adt_values # {} THEN SetMax(adt_values) ELSE DefaultMaxAdt
        drawn == DrawRoads(roads_data, 1, min_adt, max_adt, <<>>)
    IN  IF drawn.kind = "raise" THEN [ret |-> drawn, html |-> html]
        ELSE IF OutputDir \notin dirs
        THEN [ret |-> Raise("FileNotFoundError"), html |-> html]
        ELSE [ret |-> Return(None), html |-> <<drawn.value>>]

(***************************************************************************)
(* The driver (__main__).                                                  *)
(***************************************************************************)
\* The driver's box and grid size, scaled down (the source has
\* (250000, 7000000, 300000, 7100000) and 20) to a box of the same 1:2
\* shape and a 2 x 2 grid.
initial_bbox == <<0, 0, 2, 4>>
grid_size == 2

\* A mutant: the saved id file is ignored.
ObjectIdsFileExists_never(idsFile) == FALSE

\* os.path.exists(object_ids_file), the file held as <<>> or <<list>>.
ObjectIdsFileExists(idsFile) == idsFile # <<>>

\* A mutant: no deduplication.
ListOfSet_keep_duplicates(l) == {l}

\* list(set(l)): the lists of the distinct elements of l, one for each
\* order the hash table may give them.
ListOfSet(l) ==
    {s \in [1..Cardinality(Range(l)) -> Range(l)] : Range(s) = Range(l)}

\* "if geometry and adt_value is not None": geometry must be truthy.
Usable(geometry, adt_value) ==
    geometry # None /\ geometry # Some("") /\ adt_value # None

(***************************************************************************)
(* State.                                                                  *)
(***************************************************************************)
VARIABLES
    \* split_bounding_box: its arguments and what the call gave (<<>> before
    \* the call, else <<result>>)
    bbox, grid, sub_boxes,
    \* the filesystem: the directories, data/svv/all_object_ids.json (<<>> or
    \* <<list>>), the per-id cache files, output/svv-map.html (<<>> or
    \* <<polylines>>)
    dirs, idsFile, cache, html,
    \* the run in progress: where the driver is, the tile and id loop
    \* positions, its locals, the exception that ended it
    pc, tileIdx, all_object_ids, objIdx, roads_data, error,
    \* observation: runs started, the requests the last step issued to the
    \* catalog and to the detail service, the outcome of the last request
    \* ("none": the last step issued none), how the last call of
    \* fetch_object_details for each id ended
    runs, tileRequests, detailRequests, net, lastRet,
    \* observation of the current run: it queried the catalog, the ids its
    \* successful tile queries returned, a tile query failed, two tiles
    \* returned a common id
    catalogRun, returned, tileFailed, overlap

splitVars == <<bbox, grid, sub_boxes>>
fsVars == <<dirs, idsFile, cache, html>>
runVars == <<pc, tileIdx, all_object_ids, objIdx, roads_data, error>>
obsVars == <<runs, tileRequests, detailRequests, net, lastRet,
             catalogRun, returned, tileFailed, overlap>>
vars == <<splitVars, fsVars, runVars, obsVars>>

\* No run has started; no file exists.
InitPipeline ==
    /\ idsFile = <<>> /\ cache = <<>> /\ html = <<>>
    /\ pc = "idle" /\ tileIdx = 1 /\ all_object_ids = <<>> /\ objIdx = 1
    /\ roads_data = <<>> /\ error = "none"
    /\ runs = 0 /\ tileRequests = 0 /\ detailRequests = 0
    /\ net = "none" /\ lastRet = <<>>
    /\ catalogRun = FALSE /\ returned = {} /\ tileFailed = FALSE
    /\ overlap = FALSE

Init ==
    /\ bbox = initial_bbox /\ grid = grid_size /\ sub_boxes = <<>>
    /\ dirs \in DirTrees
    /\ InitPipeline

(***************************************************************************)
(* The driver, one action per step of __main__.                            *)
(***************************************************************************)
\* Lines 218-239: the directories, the split, the saved id file.
StartRun ==
    /\ pc \in {"idle", "done", "aborted"}
    /\ runs < MaxRuns
    /\ runs' = runs + 1
    /\ dirs' = dirs \cup {DataDir, SvvDir}
    /\ sub_boxes' = <<split_bounding_box(bbox, grid)>>
    /\ IF ObjectIdsFileExists(idsFile)
       THEN /\ all_object_ids' = idsFile[1]
            /\ pc' = "save"
            /\ catalogRun' = FALSE
       ELSE /\ all_object_ids' = <<>>
            /\ pc' = IF Len(sub_boxes'[1].value) = 0 THEN "save" ELSE "tiles"
            /\ catalogRun' = TRUE
    /\ tileIdx' = 1 /\ objIdx' = 1 /\ roads_data' = <<>> /\ error' = "none"
    /\ net' = "none" /\ returned' = {} /\ tileFailed' = FALSE /\ overlap' = FALSE
    /\ tileRequests' = 0 /\ detailRequests' = 0
    /\ UNCHANGED <<bbox, grid, idsFile, cache, html, lastRet>>

\* Lines 241-244: one iteration of the loop over sub_boxes.
FetchTile ==
    /\ pc = "tiles"
    /\ \E n \in CatalogOutcomes :
         LET r == fetch_nvdb_kartutsnitt(n)
         IN  /\ tileRequests' = 1 /\ detailRequests' = 0
             /\ net' = n.kind
             /\ tileFailed' = (tileFailed \/ n.kind \in Failures)
             /\ IF r.kind = "raise"
                THEN /\ pc' = "aborted" /\ error' = r.exc
                     /\ UNCHANGED <<all_object_ids, tileIdx, returned, overlap>>
                ELSE /\ all_object_ids' = all_object_ids \o r.value
                     /\ tileIdx' = tileIdx + 1
                     /\ pc' = IF tileIdx = Len(sub_boxes[1].value)
                              THEN "save" ELSE "tiles"
                     /\ returned' = returned \cup Range(r.value)
                     /\ overlap' = (overlap \/ Range(r.value) \cap returned # {})
                     /\ error' = error
    /\ UNCHANGED <<splitVars, fsVars, objIdx, roads_data,
                   runs, lastRet, catalogRun>>

\* Lines 247-252: deduplicate and save the ids.
SaveIds ==
    /\ pc = "save"
    /\ \E l \in ListOfSet(all_object_ids) :
         IF SvvDir \in dirs
         THEN /\ all_object_ids' = l
              /\ idsFile' = <<l>>
              /\ pc' = IF Len(l) = 0 THEN "render" ELSE "details"
              /\ error' = error
         ELSE /\ pc' = "aborted" /\ error' = "FileNotFoundError"
              /\ UNCHANGED <<all_object_ids, idsFile>>
    /\ net' = "none" /\ tileRequests' = 0 /\ detailRequests' = 0
    /\ UNCHANGED <<splitVars, dirs, cache, html, tileIdx, objIdx, roads_data,
                   runs, lastRet, catalogRun, returned, tileFailed, overlap>>

\* Lines 256-259: one iteration of the loop over all_object_ids.
FetchDetail ==
    /\ pc = "details"
    /\ \E n \in DetailOutcomes :
         LET object_id == all_object_ids[objIdx]
             r == fetch_object_details(object_id, cache, dirs, n)
         IN  /\ cache' = r.cache
             /\ tileRequests' = 0 /\ detailRequests' = r.requests
             /\ net' = IF r.requests = 0 THEN "none" ELSE n.kind
             /\ lastRet' = Write(lastRet, object_id, r.ret)
             /\ IF r.ret.kind = "raise"
                THEN /\ pc' = "aborted" /\ error' = r.ret.exc
                     /\ UNCHANGED <<objIdx, roads_data>>
                ELSE /\ roads_data' =
                          IF Usable(r.ret.value[1], r.ret.value[2])
                          THEN Append(roads_data, r.ret.value)
                          ELSE roads_data
                     /\ objIdx' = objIdx + 1
                     /\ pc' = IF objIdx = Len(all_object_ids)
                              THEN "render" ELSE "details"
                     /\ error' = error
    /\ UNCHANGED <<splitVars, dirs, idsFile, html, tileIdx, all_object_ids,
                   runs, catalogRun, returned, tileFailed, overlap>>

\* Line 262: generate_map(roads_data).
Render ==
    /\ pc = "render"
    /\ LET g == generate_map(roads_data, dirs, html)
       IN  /\ html' = g.html
           /\ IF g.ret.kind = "raise"
              THEN pc' = "aborted" /\ error' = g.ret.exc
              ELSE pc' = "done" /\ error' = error
    /\ net' = "none" /\ tileRequests' = 0 /\ detailRequests' = 0
    /\ UNCHANGED <<splitVars, dirs, idsFile, cache, tileIdx, all_object_ids,
                   objIdx, roads_data, runs, lastRet, catalogRun, returned,
                   tileFailed, overlap>>

Next == StartRun \/ FetchTile \/ SaveIds \/ FetchDetail \/ Render

Spec == Init /\ [][Next]_vars

(***************************************************************************)
(* split_bounding_box on its own, for every box and grid size in bounds.   *)
(***************************************************************************)
InitSplit ==
    /\ bbox \in (0..MaxCoord) \X (0..MaxCoord) \X (0..MaxCoord) \X (0..MaxCoord)
    /\ grid \in -1..MaxGrid
    /\ sub_boxes = <<>>
    /\ dirs = {}
    /\ InitPipeline

CallSplit ==
    /\ sub_boxes = <<>>
    /\ sub_boxes' = <<split_bounding_box(bbox, grid)>>
    /\ UNCHANGED <<bbox, grid, fsVars, runVars, obsVars>>

NextSplit == CallSplit

SpecSplit == InitSplit /\ [][NextSplit]_vars

(***************************************************************************)
(* generate_map on its own, for every non-empty list of usable pairs in    *)
(* bounds.                                                                 *)
(***************************************************************************)
\* The longest list of pairs handed to generate_map.
MaxPairs == 3

\* The attribute values of the pairs: a low, a middle and a high value, the
\* middle one halfway between the other two.
AdtValues == {100, 500, 900}

\* The (geometry, attribute) pairs the driver appends to roads_data: a
\* line geometry and a value, both present.
UsablePairs ==
    {<<Some(g), Some(v)>> : g \in {"LINESTRING(A)", "MULTILINESTRING(B)"},
                            v \in AdtValues}

\* The driver is about to call generate_map(roads_data); every directory
\* exists.
InitColor ==
    /\ bbox = initial_bbox /\ grid = grid_size /\ sub_boxes = <<>>
    /\ dirs = AllDirs
    /\ idsFile = <<>> /\ cache = <<>> /\ html = <<>>
    /\ pc = "render" /\ tileIdx = 1 /\ all_object_ids = <<>> /\ objIdx = 1
    /\ roads_data \in UNION {[1..n -> UsablePairs] : n \in 1..MaxPairs}
    /\ error = "none"
    /\ runs = 1 /\ tileRequests = 0 /\ detailRequests = 0
    /\ net = "none" /\ lastRet = <<>>
    /\ catalogRun = FALSE /\ returned = {} /\ tileFailed = FALSE
    /\ overlap = FALSE

NextColor == Render

SpecColor == InitColor /\ [][NextColor]_vars

(***************************************************************************)
(* Properties of the pipeline (checked under Spec).                        *)
(***************************************************************************)
\* The id the next FetchDetail step fetches (pc = "details").
NextId == all_object_ids[objIdx]

\* C1, as stated: fetching an id again (the id has been fetched before, in
\* this run or an earlier one) ends as the previous fetch of that id did and
\* issues no request.
C1_SecondFetchIdentical ==
    [][(pc = "details" /\ NextId \in DOMAIN lastRet)
          => /\ lastRet'[NextId] = lastRet[NextId]
             /\ detailRequests' = 0]_vars

\* C1, amended: whenever the cache file of the id exists at the call,
\* fetch_object_details issues no request, leaves the cache as it is, and
\* ends as the extraction from the cached record does (its geometry and
\* traffic volume, or the KeyError of a record lacking a field), which is
\* how the previous call for that id ended.
C1_CacheHitNoRequest ==
    [][(pc = "details" /\ NextId \in DOMAIN cache)
          => /\ detailRequests' = 0 /\ net' = "none"
             /\ cache' = cache
             /\ lastRet'[NextId] = ExtractDetail(cache[NextId])
             /\ lastRet'[NextId] = lastRet[NextId]]_vars

\* C1 witness: the last step fetched, from its cache file and without a
\* request, an id whose record holds a geometry and a traffic volume.
C1_Witness ==
    /\ pc \in {"details", "render"} /\ objIdx > 1
    /\ net = "none" /\ detailRequests = 0
    /\ LET id == all_object_ids[objIdx - 1]
       IN  /\ id \in DOMAIN cache
           /\ lastRet[id] = Return(<<Some("LINESTRING(A)"), Some(50)>>)

\* C2: in a run that queries the catalog, a tile whose query fails (transport
\* error or invalid JSON) adds no id, removes none and does not end the run;
\* and the id file the run saves holds each id once and exactly the ids the
\* successful tile queries returned.
C2_AggregateIsUnionOfSuccessfulTiles ==
    [][/\ (pc = "tiles" /\ net' \in Failures)
             => /\ all_object_ids' = all_object_ids
                /\ returned' = returned
                /\ pc' \in {"tiles", "save"}
                /\ tileRequests' = 1
       /\ (pc = "save" /\ catalogRun)
             => /\ pc' \in {"details", "render"}
                /\ idsFile' # <<>>
                /\ Len(idsFile'[1]) = Cardinality(Range(idsFile'[1]))
                /\ Range(idsFile'[1]) = returned]_vars

\* C2 witness: a catalog run has saved the id file after one of its tile
\* queries failed and two others returned a common id.
C2_Witness ==
    /\ catalogRun /\ tileFailed /\ overlap
    /\ pc = "details" /\ objIdx = 1
    /\ idsFile # <<>> /\ Range(idsFile[1]) = Ids

\* C3: once the id file exists, no step issues a catalog request and every
\* step leaves the file in place with the same set of ids.
C3_SavedIdsAuthoritative ==
    [][idsFile # <<>>
          => /\ tileRequests' = 0
             /\ idsFile' # <<>>
             /\ Range(idsFile'[1]) = Range(idsFile[1])]_vars

\* C3 witness: a second run, started with the id file of the first, has
\* gone through its save step and finished.
C3_Witness ==
    /\ runs = 2 /\ ~catalogRun /\ pc = "done"
    /\ idsFile # <<>> /\ idsFile[1] # <<>>

\* C4: a detail query that fails (transport error or invalid JSON) makes
\* fetch_object_details return (None, None) after exactly one request,
\* with the cache files unchanged, and the driver moves to the next id of
\* the list (to the render step after the last), nothing appended.
C4_FailedDetailSkipped ==
    [][(pc = "details" /\ net' \in Failures)
          => /\ lastRet'[NextId] = Return(<<None, None>>)
             /\ detailRequests' = 1
             /\ cache' = cache
             /\ roads_data' = roads_data
             /\ all_object_ids' = all_object_ids
             /\ objIdx' = objIdx + 1
             /\ pc' = (IF objIdx = Len(all_object_ids) THEN "render" ELSE "details")
             /\ error' = "none"]_vars

\* C4 witness: the first id's query failed, leaving no cache file, and the
\* driver went on to fetch the second id, which is now cached.
C4_Witness ==
    /\ pc = "render" /\ Len(all_object_ids) = 2
    /\ all_object_ids[1] \notin DOMAIN cache
    /\ lastRet[all_object_ids[1]] = Return(<<None, None>>)
    /\ all_object_ids[2] \in DOMAIN cache
    /\ detailRequests = 1

\* C5, as stated: no run is ended by a response that is valid JSON but
\* lacks an expected field (the KeyError of the field access).
C5_PayloadErrorsContained == ~(pc = "aborted" /\ error = "KeyError")

\* C6, as stated: no run is ended because a directory it writes into does
\* not exist.
C6_DirectoriesCreated == ~(pc = "aborted" /\ error = "FileNotFoundError")

\* C7: a cache file, once it exists, is never removed and never changes.
C7_CacheWriteOnce ==
    [][\A id \in DOMAIN cache :
          id \in DOMAIN cache' /\ cache'[id] = cache[id]]_vars

\* C7 witness: every id has a cache file and the last id of the list was
\* just fetched without a request, that is from its existing file.
C7_Witness ==
    /\ pc = "render" /\ net = "none"
    /\ Len(all_object_ids) = MaxId /\ DOMAIN cache = Ids

\* The details with both fields present and non-null, over the ids of the
\* list, as the last fetch of each id returned them.
UsableDetails ==
    {lastRet[id].value :
        id \in {i \in Range(all_object_ids) \cap DOMAIN lastRet :
                  /\ lastRet[i].kind = "return"
                  /\ lastRet[i].value[1] # None
                  /\ lastRet[i].value[2] # None}}

\* The (geometry, attribute) pairs of the polylines in the HTML file.
DrawnPairs ==
    IF html = <<>> THEN {}
    ELSE {<<Some(html[1][k].geometry), Some(html[1][k].popup)>> : k \in DOMAIN html[1]}

\* C10, as stated: once every id is fetched, the pairs handed to the
\* renderer are exactly the usable details; the renderer draws exactly
\* those, so it does not fail in colouring while there is one to draw.
C10_RenderedSetIsUsableSet ==
    /\ pc = "render" => Range(roads_data) = UsableDetails
    /\ pc = "done" => DrawnPairs = UsableDetails
    /\ (pc = "aborted" /\ error = "ZeroDivisionError") => UsableDetails = {}

(***************************************************************************)
(* Properties of split_bounding_box (checked under SpecSplit).             *)
(***************************************************************************)
Called == sub_boxes # <<>>
\* The input constraints: min < max on each axis, a positive grid size.
ValidInput == bbox[1] < bbox[3] /\ bbox[2] < bbox[4] /\ grid >= 1
Tiles == sub_boxes[1].value

Min2(a, b) == IF a < b THEN a ELSE b
Max2(a, b) == IF a > b THEN a ELSE b

\* The interiors of two tiles meet.
Overlap(s, t) ==
    /\ Max2(s[1], t[1]) < Min2(s[3], t[3])
    /\ Max2(s[2], t[2]) < Min2(s[4], t[4])

\* A tile of positive size that lies inside the box.
InsideBox(t) ==
    /\ bbox[1] * Scale <= t[1] /\ t[1] < t[3] /\ t[3] <= bbox[3] * Scale
    /\ bbox[2] * Scale <= t[2] /\ t[2] < t[4] /\ t[4] <= bbox[4] * Scale

RECURSIVE AreaSum(_, _)
AreaSum(ts, k) ==
    IF k > Len(ts) THEN 0
    ELSE (ts[k][3] - ts[k][1]) * (ts[k][4] - ts[k][2]) + AreaSum(ts, k + 1)

OnGridLine(v, lo, ext, k) ==
    LET exact == grid * lo * Scale + k * ext * Scale
        tol == 3 * Ulp((lo + ext) * Scale, 1)
    IN  /\ Abs(grid * v - exact) <= grid * tol
        /\ ext % grid = 0 => grid * v = exact

C9_InvalidInputRejected ==
    (Called /\ ~ValidInput) => sub_boxes[1].kind = "raise"

(***************************************************************************)
(* Properties of generate_map and generate_color (checked under SpecColor).*)
(***************************************************************************)
\* The call of generate_map has ended.
Rendered == pc # "render"

\* The attribute values of the pairs handed to generate_map.
AdtOfPairs == {roads_data[k][2][1] : k \in DOMAIN roads_data}

\* The colours of the polylines the HTML file holds for the k-th pair.
ColorsOf(k) ==
    IF html = <<>> THEN {}
    ELSE {html[1][n].color :
            n \in {m \in DOMAIN html[1] :
                     /\ html[1][m].geometry = roads_data[k][1][1]
                     /\ html[1][m].popup = roads_data[k][2][1]}}

\* C11, as stated: for every non-empty list of usable pairs the call of
\* generate_map ends normally and every pair is drawn with a colour on the
\* scale from the least to the greatest attribute value of the list: the
\* low endpoint (0,255,0) for a pair at the minimum, the high endpoint
\* (255,0,0) for a pair at the maximum, equal red and green components for
\* a pair at (min + max) / 2 (the endpoints being distinct when the values
\* are).
C11_ColourDefinedForEveryPair ==
    Rendered =>
        /\ pc = "done"
        /\ \A k \in DOMAIN roads_data :
              LET v == roads_data[k][2][1]
                  lo == SetMin(AdtOfPairs)
                  hi == SetMax(AdtOfPairs)
              IN  /\ ColorsOf(k) # {}
                  /\ \A c \in ColorsOf(k) :
                        lo < hi =>
                           /\ v = lo => c = <<0, 255, 0>>
                           /\ v = hi => c = <<255, 0, 0>>
                           /\ 2 * v = lo + hi => c[1] = c[2]

=============================================================================
